---- MODULE Spec2Model ----
(***************************************************************************)
(* A model of python-api/gstswitch/controller.py: the Controller class of  *)
(* gst-switch's Python API.  The Controller stores four validated endpoint *)
(* fields, builds a fresh Connection per state-changing operation, unwraps *)
(* the replies of the remote calls and dispatches bus signals to six lists *)
(* of callbacks.                                                           *)
(*                                                                         *)
(* Python values are records [t |-> type, v |-> payload].  Text is a       *)
(* sequence of one-character strings, so that find, count and indexing are *)
(* computed the way the code computes them.                                *)
(***************************************************************************)
EXTENDS Integers, Sequences, FiniteSets, TLC

VARIABLES
    address,            \* self._address
    bus_name,           \* self._bus_name
    object_path,        \* self._object_path
    default_interface,  \* self._default_interface
    connection,         \* self.connection: a Connection, or NoConnection for None
    nconns,             \* number of Connection objects built so far
    callbacks,          \* the six self.callbacks_<signal> lists, by attribute name
    events,             \* calls made on Connection objects by the last public call
    outcome,            \* what the last public call did: returned or raised
    dispatch            \* the cb_signal_handler activation: running, or just ended

vars == <<address, bus_name, object_path, default_interface, connection, nconns,
          callbacks, events, outcome, dispatch>>

endpoint == <<address, bus_name, object_path, default_interface>>

----------------------------------------------------------------------------
(* Bounds of the model *)

MaxLen == 2

MaxCalls == 3

MaxRegistered == 2
\* registered functions that call the client
MaxReentrant == 1
\* tuples in a preview-port text
MaxTuples == 3
\* reassignments, connections and registrations together, in the runs that
\* mix all public calls
MaxDistance == 2

----------------------------------------------------------------------------
(* Python values *)

PyNone == [t |-> "none", v |-> <<>>]

PyStr(s) == [t |-> "str", v |-> s]

PyInt(n) == [t |-> "int", v |-> n]

PyBool(b) == [t |-> "bool", v |-> b]

PyList(s) == [t |-> "list", v |-> s]

PyEq(a, b) == a.t = b.t /\ a.v = b.v

\* bool(x) as used by "if not address"
Truthy(x) ==
    CASE x.t = "none" -> FALSE
      [] x.t = "str"  -> Len(x.v) > 0
      [] x.t = "int"  -> x.v # 0
      [] x.t = "bool" -> x.v
      [] x.t = "list" -> Len(x.v) > 0
      [] OTHER        -> TRUE

DigitChar(d) ==
    CASE d = 0 -> "0" [] d = 1 -> "1" [] d = 2 -> "2" [] d = 3 -> "3"
      [] d = 4 -> "4" [] d = 5 -> "5" [] d = 6 -> "6" [] d = 7 -> "7"
      [] d = 8 -> "8" [] d = 9 -> "9"

RECURSIVE NatToText(_)
NatToText(n) ==
    IF n < 10 THEN <<DigitChar(n)>>
    ELSE NatToText(n \div 10) \o <<DigitChar(n % 10)>>

\* str(x): the text of a value
Str(x) ==
    CASE x.t = "str"  -> x.v
      [] x.t = "int"  -> IF x.v < 0 THEN <<"-">> \o NatToText(0 - x.v)
                         ELSE NatToText(x.v)
      [] x.t = "none" -> <<"N", "o", "n", "e">>
      [] x.t = "bool" -> IF x.v THEN <<"T", "r", "u", "e">>
                         ELSE <<"F", "a", "l", "s", "e">>

\* s.find(ch): the lowest 0-based index of ch in s, or -1
Find(s, ch) ==
    IF \E i \in 1..Len(s) : s[i] = ch
    THEN (CHOOSE i \in 1..Len(s) : s[i] = ch /\ \A j \in 1..(i - 1) : s[j] # ch) - 1
    ELSE -1

\* s.count(ch)
Count(s, ch) == Cardinality({i \in 1..Len(s) : s[i] = ch})

\* every text over an alphabet, up to a length
Texts(alphabet, n) == UNION {[1..k -> alphabet] : k \in 0..n}

----------------------------------------------------------------------------
(* Exceptions and the result of a call *)

NoExc == "none"

Returned(op, args, value) == [op |-> op, args |-> args, exc |-> NoExc, value |-> value]

Raised(op, args, exc) == [op |-> op, args |-> args, exc |-> exc, value |-> PyNone]

----------------------------------------------------------------------------
(* The endpoint fields: __init__ defaults and the property setters *)

DefaultAddress ==
    <<"t", "c", "p", ":", "h", "o", "s", "t", "=", "1", "2", "7", ".", "0", ".",
      "0", ".", "1", ",", "p", "o", "r", "t", "=", "5", "0", "0", "0">>

DefaultBusName ==
    <<"u", "s", ".", "t", "i", "m", "v", "i", "d", "e", "o", "s", ".", "g", "s",
      "t", "s", "w", "i", "t", "c", "h", ".", "S", "w", "i", "t", "c", "h", "C",
      "o", "n", "t", "r", "o", "l", "l", "e", "r">>

DefaultObjectPath ==
    <<"/", "u", "s", "/", "t", "i", "m", "v", "i", "d", "e", "o", "s", "/", "g",
      "s", "t", "s", "w", "i", "t", "c", "h", "/", "S", "w", "i", "t", "c", "h",
      "C", "o", "n", "t", "r", "o", "l", "l", "e", "r">>

DefaultInterface ==
    <<"u", "s", ".", "t", "i", "m", "v", "i", "d", "e", "o", "s", ".", "g", "s",
      "t", "s", "w", "i", "t", "c", "h", ".", "S", "w", "i", "t", "c", "h", "C",
      "o", "n", "t", "r", "o", "l", "l", "e", "r", "I", "n", "t", "e", "r", "f",
      "a", "c", "e">>

\* values a caller may assign: texts around the separator, None and integers
NonText == {PyNone, PyInt(0), PyInt(5)}

AddressInputs == {PyStr(s) : s \in Texts({"a", ":"}, MaxLen)} \cup NonText

BusNameInputs == {PyStr(s) : s \in Texts({"b"}, 1)} \cup {PyNone, PyInt(5)}

ObjectPathInputs == {PyStr(s) : s \in Texts({"a", "/"}, MaxLen)} \cup NonText

InterfaceInputs == {PyStr(s) : s \in Texts({"a", "."}, MaxLen)} \cup NonText

\* the test, had it taken ':' as the first character too
AddressValidAnywhere(adr) == Find(adr, ":") >= 0
\* adr.find(':') > 0
AddressValid(adr) == Find(adr, ":") > 0

\* obj[0] == '/'
ObjectPathValid(obj) == obj[1] = "/"

\* the test, had it asked for one '.' only
InterfaceValidOneDot(intr) == Count(intr, ".") > 0
\* intr.count('.') > 1
InterfaceValid(intr) == Count(intr, ".") > 1

\* Each setter, as the pair of the field's new value and the call's result.
address_setter(old, value) ==
    IF ~Truthy(value)
    THEN [field |-> old, res |-> Raised("address", <<value>>, "ValueError")]
    ELSE LET adr == Str(value) IN
         IF AddressValid(adr)
         THEN [field |-> PyStr(adr), res |-> Returned("address", <<value>>, PyNone)]
         ELSE [field |-> old, res |-> Raised("address", <<value>>, "ValueError")]

bus_name_setter(old, value) ==
    IF value.t = "none"
    THEN [field |-> PyNone, res |-> Returned("bus_name", <<value>>, PyNone)]
    ELSE [field |-> PyStr(Str(value)), res |-> Returned("bus_name", <<value>>, PyNone)]

\* the setter, had it stored the text before testing it
object_path_setter_early(old, value) ==
    IF ~Truthy(value)
    THEN [field |-> old, res |-> Raised("object_path", <<value>>, "ValueError")]
    ELSE LET obj == Str(value) IN
         [field |-> PyStr(obj),
          res |-> IF ObjectPathValid(obj)
                  THEN Returned("object_path", <<value>>, PyNone)
                  ELSE Raised("object_path", <<value>>, "ValueError")]
object_path_setter(old, value) ==
    IF ~Truthy(value)
    THEN [field |-> old, res |-> Raised("object_path", <<value>>, "ValueError")]
    ELSE LET obj == Str(value) IN
         IF ObjectPathValid(obj)
         THEN [field |-> PyStr(obj), res |-> Returned("object_path", <<value>>, PyNone)]
         ELSE [field |-> old, res |-> Raised("object_path", <<value>>, "ValueError")]

default_interface_setter(old, value) ==
    IF ~Truthy(value)
    THEN [field |-> old, res |-> Raised("default_interface", <<value>>, "ValueError")]
    ELSE LET intr == Str(value) IN
         IF InterfaceValid(intr)
         THEN [field |-> PyStr(intr),
               res |-> Returned("default_interface", <<value>>, PyNone)]
         ELSE [field |-> old, res |-> Raised("default_interface", <<value>>, "ValueError")]

----------------------------------------------------------------------------
(* Connection objects and what the bus does during one call *)

COMPOSITE_NONE == 0

COMPOSITE_DUAL_EQUAL == 3

VIDEO_CHANNEL_A == 65

VIDEO_CHANNEL_B == 66

AUDIO_CHANNEL == 97

\* the Connection, had object_path not been handed to it
ConnectionAtDefaultPath(id, a, b, o, d) ==
    [id |-> id, address |-> a, bus_name |-> b, object_path |-> PyStr(DefaultObjectPath),
     default_interface |-> d, connected |-> FALSE, subscribed |-> FALSE]
\* Connection(address=..., bus_name=..., object_path=..., default_interface=...):
\* a new object, told apart from every earlier one by its id
Connection(id, a, b, o, d) ==
    [id |-> id, address |-> a, bus_name |-> b, object_path |-> o,
     default_interface |-> d, connected |-> FALSE, subscribed |-> FALSE]

\* self.connection = None
NoConnection == Connection(0, PyNone, PyNone, PyNone, PyNone)

\* a call made on a Connection object (connect_dbus, signal_subscribe or a
\* remote method) and what came of it: "ok", "raises" or the reply
Event(ev, h, method, args, result) ==
    [ev |-> ev, h |-> h, method |-> method, args |-> args, result |-> result]

\* the part of the state a public call works on
World == [connection |-> connection, nconns |-> nconns, events |-> <<>>]

\* The value a remote method hands back: a GVariant tuple (of any length), a
\* GVariant that holds a single integer, or an object without unpack(); or
\* the method raises.
VariantTuple(elems) == [k |-> "variant_tuple", v |-> elems]

VariantScalar == [k |-> "variant_scalar", v |-> <<>>]

NoUnpack == [k |-> "no_unpack", v |-> <<>>]

RaisesError == [k |-> "raises", v |-> <<>>]

\* texts a server may send as the preview-port list
PreviewTexts ==
    {<<"[", "(", "1", ",", " ", "2", ",", " ", "3", ")", "]">>,
     <<"[", "]">>,
     <<"n", "o", "t", " ", "a", " ", "l", "i", "s", "t">>,
     <<"5">>}

ReplyElements ==
    {<<>>, <<PyInt(3000)>>, <<PyBool(TRUE)>>, <<PyBool(FALSE)>>,
     <<PyInt(2), PyInt(7)>>} \cup {<<PyStr(t)>> : t \in PreviewTexts}

Replies ==
    {VariantTuple(e) : e \in ReplyElements} \cup {VariantScalar, NoUnpack, RaisesError}

\* what the bus does during one call: whether connect_dbus and
\* signal_subscribe succeed, and the reply of the remote method
Transports ==
    {[connect |-> TRUE, subscribe |-> TRUE, reply |-> r] : r \in Replies}
    \cup {[connect |-> FALSE, subscribe |-> TRUE, reply |-> RaisesError],
          [connect |-> TRUE, subscribe |-> FALSE, reply |-> RaisesError]}

AllExceptions ==
    {"ValueError", "AttributeError", "TypeError", "IndexError",
     "TransportError", "ConnectionReturnError"}

Result(w, exc, value) == [w |-> w, exc |-> exc, value |-> value]

\* establish_connection, had it connected to the default address
establish_default(w, tr) ==
    LET h  == w.nconns + 1
        w1 == [connection |-> Connection(h, PyStr(DefaultAddress), bus_name, object_path,
                                         default_interface),
               nconns |-> h,
               events |-> w.events]
        connect(res) == Event("connect", h, "connect_dbus", <<>>, res)
        subscribe(res) ==
            Event("subscribe", h, "signal_subscribe", <<"cb_signal_handler">>, res)
        w2 == [w1 EXCEPT !.connection.connected = TRUE,
                         !.events = Append(@, connect("ok"))]
        w3 == [w2 EXCEPT !.connection.subscribed = TRUE,
                         !.events = Append(@, subscribe("ok"))]
    IN  IF ~tr.connect
        THEN Result([w1 EXCEPT !.events = Append(@, connect("raises"))],
                    "TransportError", PyNone)
        ELSE IF ~tr.subscribe
        THEN Result([w2 EXCEPT !.events = Append(@, subscribe("raises"))],
                    "TransportError", PyNone)
        ELSE Result(w3, NoExc, PyNone)
\* establish_connection: build the Connection from the fields as they are
\* now, store it in self.connection, connect it, subscribe cb_signal_handler
establish_connection(w, tr) ==
    LET h  == w.nconns + 1
        w1 == [connection |-> Connection(h, address, bus_name, object_path,
                                         default_interface),
               nconns |-> h,
               events |-> w.events]
        connect(res) == Event("connect", h, "connect_dbus", <<>>, res)
        subscribe(res) ==
            Event("subscribe", h, "signal_subscribe", <<"cb_signal_handler">>, res)
        w2 == [w1 EXCEPT !.connection.connected = TRUE,
                         !.events = Append(@, connect("ok"))]
        w3 == [w2 EXCEPT !.connection.subscribed = TRUE,
                         !.events = Append(@, subscribe("ok"))]
    IN  IF ~tr.connect
        THEN Result([w1 EXCEPT !.events = Append(@, connect("raises"))],
                    "TransportError", PyNone)
        ELSE IF ~tr.subscribe
        THEN Result([w2 EXCEPT !.events = Append(@, subscribe("raises"))],
                    "TransportError", PyNone)
        ELSE Result(w3, NoExc, PyNone)

\* self.connection.<method>(*args): None has no methods; otherwise the call
\* is made on the current Connection and returns its reply or raises
Invoke(w, method, args, tr) ==
    IF w.connection.id = 0
    THEN [w |-> w, exc |-> "AttributeError", reply |-> NoUnpack]
    ELSE LET w1 == [w EXCEPT !.events =
                        Append(@, Event("invoke", w.connection.id, method, args,
                                        tr.reply))]
         IN  IF tr.reply.k = "raises"
             THEN [w |-> w1, exc |-> "TransportError", reply |-> NoUnpack]
             ELSE [w |-> w1, exc |-> NoExc, reply |-> tr.reply]

\* conn.unpack()[0]
Unwrap(reply) ==
    CASE reply.k = "no_unpack"      -> [exc |-> "AttributeError", value |-> PyNone]
      [] reply.k = "variant_scalar" -> [exc |-> "TypeError", value |-> PyNone]
      [] reply.k = "variant_tuple"  ->
            IF Len(reply.v) = 0
            THEN [exc |-> "IndexError", value |-> PyNone]
            ELSE [exc |-> NoExc, value |-> reply.v[1]]

\* try: <body> except <caught>: raise ConnectionReturnError(...)
Except(caught, exc) == IF exc \in caught THEN "ConnectionReturnError" ELSE exc

----------------------------------------------------------------------------
(* The remote operations.  Each takes the world it starts from and what the *)
(* bus does, and gives the world it leaves, the exception it raises (or     *)
(* NoExc) and the value it returns.                                         *)

\* A query: the remote call is made on self.connection as it is, outside the
\* try; only unpack()[0] is inside it.
Query(w, method, tr) ==
    LET i == Invoke(w, method, <<>>, tr) IN
    IF i.exc # NoExc THEN Result(i.w, i.exc, PyNone)
    ELSE LET u == Unwrap(i.reply)
             exc == Except({"AttributeError"}, u.exc)
         IN  Result(i.w, exc, IF exc = NoExc THEN u.value ELSE PyNone)

\* the try block, had "if res is not True" raised
TryCallEnforced(w, method, args, tr, caught) ==
    LET i == Invoke(w, method, args, tr)
        u == Unwrap(i.reply)
        exc == Except(caught, IF i.exc # NoExc THEN i.exc ELSE u.exc)
    IN  IF exc = NoExc /\ ~PyEq(u.value, PyBool(TRUE))
        THEN Result(i.w, "ConnectionReturnError", PyNone)
        ELSE Result(i.w, exc, IF exc = NoExc THEN u.value ELSE PyNone)
\* try: conn = self.connection.<method>(...); res = conn.unpack()[0]
\* except <caught>: raise ConnectionReturnError
TryCall(w, method, args, tr, caught) ==
    LET i == Invoke(w, method, args, tr)
        u == Unwrap(i.reply)
        exc == Except(caught, IF i.exc # NoExc THEN i.exc ELSE u.exc)
    IN  Result(i.w, exc, IF exc = NoExc THEN u.value ELSE PyNone)

get_compose_port(w, tr) == Query(w, "get_compose_port", tr)

get_encode_port(w, tr) == Query(w, "get_encode_port", tr)

get_audio_port(w, tr) == Query(w, "get_audio_port", tr)

\* the test, had it been range(0, 5)
ModeInRangeUpTo4(mode) ==
    \/ mode.t = "int" /\ mode.v >= COMPOSITE_NONE /\ mode.v <= COMPOSITE_DUAL_EQUAL + 1
    \/ mode.t = "bool"
\* mode in range(0, 4); True and False count as 1 and 0
ModeInRange(mode) ==
    \/ mode.t = "int" /\ mode.v >= COMPOSITE_NONE /\ mode.v <= COMPOSITE_DUAL_EQUAL
    \/ mode.t = "bool"

set_composite_mode(w, mode, tr) ==
    LET e == establish_connection(w, tr) IN
    IF e.exc # NoExc THEN e
    ELSE IF ModeInRange(mode)
         THEN TryCall(e.w, "set_composite_mode", <<mode>>, tr, {"AttributeError"})
         ELSE Result(e.w, NoExc, PyNone)

get_composite_mode(w, tr) ==
    LET e == establish_connection(w, tr) IN
    IF e.exc # NoExc THEN e
    ELSE TryCall(e.w, "get_composite_mode", <<>>, tr, {"AttributeError"})

\* set_encode_mode, had it gone on after a failed establish_connection
set_encode_mode_unchecked(w, channel, tr) ==
    LET e == establish_connection(w, tr) IN
    TryCall(e.w, "set_encode_mode", <<channel>>, tr, {"AttributeError"})
set_encode_mode(w, channel, tr) ==
    LET e == establish_connection(w, tr) IN
    IF e.exc # NoExc THEN e
    ELSE TryCall(e.w, "set_encode_mode", <<channel>>, tr, {"AttributeError"})

new_record(w, tr) ==
    LET e == establish_connection(w, tr) IN
    IF e.exc # NoExc THEN e
    ELSE TryCall(e.w, "new_record", <<>>, tr, {"AttributeError"})

adjust_pip(w, xpos, ypos, width, height, tr) ==
    LET e == establish_connection(w, tr) IN
    IF e.exc # NoExc THEN e
    ELSE TryCall(e.w, "adjust_pip", <<xpos, ypos, width, height>>, tr,
                 {"AttributeError"})

\* switch, had it kept a Connection that is already there
switch_reuse(w, channel, port, tr) ==
    LET e == IF w.connection.id = 0 THEN establish_connection(w, tr)
             ELSE Result(w, NoExc, PyNone) IN
    IF e.exc # NoExc THEN e
    ELSE TryCall(e.w, "switch", <<channel, port>>, tr, {"AttributeError"})
\* switch
switch(w, channel, port, tr) ==
    LET e == establish_connection(w, tr) IN
    IF e.exc # NoExc THEN e
    ELSE TryCall(e.w, "switch", <<channel, port>>, tr, {"AttributeError"})

\* click_video, had establish_connection been inside its bare except
click_video_wrapped(w, xpos, ypos, width, height, tr) ==
    LET e == establish_connection(w, tr) IN
    IF e.exc # NoExc THEN Result(e.w, "ConnectionReturnError", PyNone)
    ELSE TryCall(e.w, "click_video", <<xpos, ypos, width, height>>, tr, AllExceptions)
\* click_video: its except clause names no exception and so takes them all
click_video(w, xpos, ypos, width, height, tr) ==
    LET e == establish_connection(w, tr) IN
    IF e.exc # NoExc THEN e
    ELSE TryCall(e.w, "click_video", <<xpos, ypos, width, height>>, tr, AllExceptions)

\* mark_face and mark_tracking make the call and drop its reply
mark_face(w, faces, tr) ==
    LET e == establish_connection(w, tr) IN
    IF e.exc # NoExc THEN e
    ELSE LET i == Invoke(e.w, "mark_face", <<faces>>, tr) IN Result(i.w, i.exc, PyNone)

mark_tracking(w, faces, tr) ==
    LET e == establish_connection(w, tr) IN
    IF e.exc # NoExc THEN e
    ELSE LET i == Invoke(e.w, "mark_tracking", <<faces>>, tr) IN Result(i.w, i.exc, PyNone)

----------------------------------------------------------------------------
(* parse_preview_ports: ast.literal_eval of the reply's text, then the first *)
(* element of every item as an integer.  The literal grammar modelled is    *)
(* integers, names, lists and tuples, separated by commas and blanks.       *)

Digits == {"0", "1", "2", "3", "4", "5", "6", "7", "8", "9"}

Letters ==
    {"a", "b", "e", "i", "l", "n", "o", "r", "s", "t", "u", "x", "F", "N", "T"}

Puncts == {"[", "]", "(", ")", ","}

DigitValue(c) == CHOOSE d \in 0..9 : DigitChar(d) = c

\* the end (exclusive) of the run of characters of `set` that starts at i
RECURSIVE RunEnd(_, _, _)
RunEnd(chars, i, set) ==
    IF i <= Len(chars) /\ chars[i] \in set THEN RunEnd(chars, i + 1, set) ELSE i

RECURSIVE DecimalValue(_)
DecimalValue(ds) ==
    IF Len(ds) = 0 THEN 0
    ELSE 10 * DecimalValue(SubSeq(ds, 1, Len(ds) - 1)) + DigitValue(ds[Len(ds)])

Token(k, v) == [k |-> k, v |-> v]

\* the tokens of a text; a character or number that Python's tokenizer
\* refuses becomes a "bad" token
RECURSIVE Tokenize(_, _)
Tokenize(chars, i) ==
    IF i > Len(chars) THEN <<>>
    ELSE LET c == chars[i] IN
         CASE c = " " -> Tokenize(chars, i + 1)
           [] c \in Puncts -> <<Token("punct", c)>> \o Tokenize(chars, i + 1)
           [] c \in Digits ->
                LET j == RunEnd(chars, i, Digits) IN
                IF j <= Len(chars) /\ chars[j] \in Letters
                THEN <<Token("bad", c)>>
                ELSE <<Token("int", DecimalValue(SubSeq(chars, i, j - 1)))>>
                     \o Tokenize(chars, j)
           [] c \in Letters ->
                LET j == RunEnd(chars, i, Letters \cup Digits) IN
                <<Token("name", SubSeq(chars, i, j - 1))>> \o Tokenize(chars, j)
           [] OTHER -> <<Token("bad", c)>>

IsPunct(toks, i, c) == i <= Len(toks) /\ toks[i].k = "punct" /\ toks[i].v = c

AtClose(toks, i, close) ==
    IF close = "eof" THEN i > Len(toks) ELSE IsPunct(toks, i, close)

Node(t, v) == [t |-> t, v |-> v]

Parsed(node, next) == [ok |-> TRUE, node |-> node, next |-> next]

SyntaxError == [ok |-> FALSE, node |-> Node("none", <<>>), next |-> 0]

\* ParseItems: expressions separated by commas up to the closing token
\* (not consumed); its node is [items, commas].  ParseAtom: one expression.
RECURSIVE ParseItems(_, _, _, _, _)
RECURSIVE ParseAtom(_, _)
ParseItems(toks, i, close, acc, commas) ==
    IF AtClose(toks, i, close)
    THEN Parsed([items |-> acc, commas |-> commas], i)
    ELSE LET a == ParseAtom(toks, i) IN
         IF ~a.ok THEN SyntaxError
         ELSE IF IsPunct(toks, a.next, ",")
              THEN ParseItems(toks, a.next + 1, close, Append(acc, a.node), TRUE)
              ELSE IF AtClose(toks, a.next, close)
                   THEN Parsed([items |-> Append(acc, a.node), commas |-> commas],
                               a.next)
                   ELSE SyntaxError

ParseAtom(toks, i) ==
    IF i > Len(toks) THEN SyntaxError
    ELSE CASE toks[i].k = "int"  -> Parsed(Node("int", toks[i].v), i + 1)
           [] toks[i].k = "name" -> Parsed(Node("name", toks[i].v), i + 1)
           [] IsPunct(toks, i, "[") ->
                LET r == ParseItems(toks, i + 1, "]", <<>>, FALSE) IN
                IF ~r.ok THEN SyntaxError
                ELSE Parsed(Node("list", r.node.items), r.next + 1)
           [] IsPunct(toks, i, "(") ->
                LET r == ParseItems(toks, i + 1, ")", <<>>, FALSE) IN
                IF ~r.ok THEN SyntaxError
                ELSE IF Len(r.node.items) = 1 /\ ~r.node.commas
                     THEN Parsed(r.node.items[1], r.next + 1)
                     ELSE Parsed(Node("tuple", r.node.items), r.next + 1)
           [] OTHER -> SyntaxError

\* the whole text as one expression: a bare "1, 2" is a tuple
ParseExpression(toks) ==
    LET r == ParseItems(toks, 1, "eof", <<>>, FALSE) IN
    IF ~r.ok \/ Len(r.node.items) = 0 THEN SyntaxError
    ELSE IF Len(r.node.items) = 1 /\ ~r.node.commas
         THEN Parsed(r.node.items[1], r.next)
         ELSE Parsed(Node("tuple", r.node.items), r.next)

\* literal_eval's conversion of a parsed node: of the names only True, False
\* and None are literals
RECURSIVE Literal(_)
RECURSIVE Literals(_)
Literal(node) ==
    CASE node.t = "int" -> [exc |-> NoExc, value |-> PyInt(node.v)]
      [] node.t = "name" ->
            IF node.v = <<"T", "r", "u", "e">>
            THEN [exc |-> NoExc, value |-> PyBool(TRUE)]
            ELSE IF node.v = <<"F", "a", "l", "s", "e">>
            THEN [exc |-> NoExc, value |-> PyBool(FALSE)]
            ELSE IF node.v = <<"N", "o", "n", "e">>
            THEN [exc |-> NoExc, value |-> PyNone]
            ELSE [exc |-> "ValueError", value |-> PyNone]
      [] OTHER ->
            LET r == Literals(node.v) IN
            IF r.exc # NoExc THEN [exc |-> r.exc, value |-> PyNone]
            ELSE [exc |-> NoExc, value |-> [t |-> node.t, v |-> r.value]]

Literals(nodes) ==
    IF Len(nodes) = 0 THEN [exc |-> NoExc, value |-> <<>>]
    ELSE LET h == Literal(nodes[1]) IN
         IF h.exc # NoExc THEN [exc |-> h.exc, value |-> <<>>]
         ELSE LET r == Literals(Tail(nodes)) IN
              IF r.exc # NoExc THEN r
              ELSE [exc |-> NoExc, value |-> <<h.value>> \o r.value]

\* ast.literal_eval(res): a value that is not text is a malformed node
literal_eval(res) ==
    IF res.t # "str" THEN [exc |-> "ValueError", value |-> PyNone]
    ELSE LET toks == Tokenize(res.v, 1) IN
         IF \E i \in 1..Len(toks) : toks[i].k = "bad"
         THEN [exc |-> "SyntaxError", value |-> PyNone]
         ELSE LET p == ParseExpression(toks) IN
              IF ~p.ok THEN [exc |-> "SyntaxError", value |-> PyNone]
              ELSE Literal(p.node)

\* int(tupl[0])
FirstAsInt(tupl) ==
    IF tupl.t \notin {"list", "tuple"} THEN [exc |-> "TypeError", value |-> PyNone]
    ELSE IF Len(tupl.v) = 0 THEN [exc |-> "IndexError", value |-> PyNone]
    ELSE LET x == tupl.v[1] IN
         CASE x.t = "int"  -> [exc |-> NoExc, value |-> x]
           [] x.t = "bool" -> [exc |-> NoExc, value |-> PyInt(IF x.v THEN 1 ELSE 0)]
           [] OTHER        -> [exc |-> "TypeError", value |-> PyNone]

\* for tupl in liststr: preview_ports.append(int(tupl[0]))
RECURSIVE PortsOf(_)
PortsOf(items) ==
    IF Len(items) = 0 THEN [exc |-> NoExc, value |-> <<>>]
    ELSE LET f == FirstAsInt(items[1]) IN
         IF f.exc # NoExc THEN [exc |-> f.exc, value |-> <<>>]
         ELSE LET r == PortsOf(Tail(items)) IN
              IF r.exc # NoExc THEN r
              ELSE [exc |-> NoExc, value |-> <<f.value>> \o r.value]

parse_preview_ports(res) ==
    LET lit == literal_eval(res) IN
    IF lit.exc \in {"ValueError", "SyntaxError"}
    THEN [exc |-> "ConnectionReturnError", value |-> PyNone]
    ELSE IF lit.value.t \notin {"list", "tuple"}
         THEN [exc |-> "TypeError", value |-> PyNone]
         ELSE LET r == PortsOf(lit.value.v) IN
              IF r.exc # NoExc THEN [exc |-> r.exc, value |-> PyNone]
              ELSE [exc |-> NoExc, value |-> PyList(r.value)]

\* tuples as a server writes them, each with its first element: three
\* integers with and without blanks, one element, two digits, a boolean
\* first, and a longer one
TupleForms ==
    {[text |-> <<"(", "1", ",", " ", "2", ",", " ", "3", ")">>, first |-> 1],
     [text |-> <<"(", "4", ",", "5", ",", "6", ")">>, first |-> 4],
     [text |-> <<"(", "7", ",", ")">>, first |-> 7],
     [text |-> <<"(", "3", "0", ",", " ", "9", ")">>, first |-> 30],
     [text |-> <<"(", "2", ",", " ", "(", "8", ",", " ", "9", ")", ",", " ", "5", ",",
                 " ", "6", ")">>, first |-> 2]}

TupleLists == UNION {[1..n -> TupleForms] : n \in 0..MaxTuples}

Separators == {<<",">>, <<",", " ">>}

RECURSIVE Join(_, _)
Join(ts, sep) ==
    IF Len(ts) = 0 THEN <<>>
    ELSE IF Len(ts) = 1 THEN ts[1].text
    ELSE ts[1].text \o sep \o Join(Tail(ts), sep)

\* '[(a, b, c), (a, b, c)*]'
ListText(ts, sep) == <<"[">> \o Join(ts, sep) \o <<"]">>

\* texts that are no list of tuples: no literal at all, a literal that is
\* neither list nor tuple, a list of something else
OtherTexts ==
    {<<"n", "o", "t", " ", "a", " ", "l", "i", "s", "t">>,
     <<>>,
     <<"[">>,
     <<"[", "(", "1", ",", " ", "2", "]">>,
     <<"x">>,
     <<"5">>,
     <<"N", "o", "n", "e">>,
     <<"T", "r", "u", "e">>,
     <<"[", "(", ")", "]">>,
     <<"[", "5", "]">>,
     <<"[", "(", "5", ")", "]">>,
     <<"(", "1", ",", " ", "2", ")">>}

ParseInputs ==
    {PyStr(ListText(ts, sep)) : ts \in TupleLists, sep \in Separators}
    \cup {PyStr(t) : t \in OtherTexts}

get_preview_ports(w, tr) ==
    LET i == Invoke(w, "get_preview_ports", <<>>, tr) IN
    IF i.exc # NoExc THEN Result(i.w, i.exc, PyNone)
    ELSE LET u == Unwrap(i.reply) IN
         IF u.exc # NoExc
         THEN Result(i.w, Except({"AttributeError"}, u.exc), PyNone)
         ELSE LET r == parse_preview_ports(u.value) IN
              Result(i.w, Except({"AttributeError"}, r.exc), r.value)

----------------------------------------------------------------------------
(* The callback lists, the on_<signal> registrations and cb_signal_handler *)

SignalKinds ==
    {"preview_port_added", "preview_port_removed", "new_mode_online",
     "show_face_marker", "show_track_marker", "select_face"}

\* 'callbacks_' + signal_name
RegistryAttr(signal_name) == "callbacks_" \o signal_name

RegistryAttrs == {RegistryAttr(k) : k \in SignalKinds}

\* signal names the bus may deliver: the six kinds and two others
SignalNames == SignalKinds \cup {"ui_resized", ""}

\* the parameters of a signal, a GVariant tuple
SignalParameters ==
    {VariantTuple(<<PyInt(3001), PyInt(1), PyInt(0)>>), VariantTuple(<<PyInt(2)>>)}

PyFunc(name) == [t |-> "function", v |-> name]

\* functions a caller may register: two that return, one that raises
\* ValueError, one whose body raises AttributeError
CallbackNames == {"cb_a", "cb_b", "cb_value_error", "cb_attribute_error"}

RegisterInputs == {PyFunc(n) : n \in CallbackNames} \cup {PyNone, PyInt(5)}

\* callable(callback)
Callable(x) == x.t = "function"

TotalRegistered(cbs) ==
    LET RECURSIVE Sum(_)
        Sum(S) == IF S = {} THEN 0
                  ELSE LET a == CHOOSE a \in S : TRUE IN Len(cbs[a]) + Sum(S \ {a})
    IN  Sum(DOMAIN cbs)

\* the registration, had it put the callback at the head of the list
RegisterAtHead(cbs, signal_name, callback) ==
    LET op == "on_" \o signal_name IN
    IF ~Callable(callback)
    THEN [callbacks |-> cbs, res |-> Raised(op, <<callback>>, "ValueError")]
    ELSE [callbacks |-> [cbs EXCEPT ![RegistryAttr(signal_name)] = <<callback>> \o @],
          res |-> Returned(op, <<callback>>, PyNone)]
\* if not callable(callback): raise ValueError; self.callbacks_<signal>.append
Register(cbs, signal_name, callback) ==
    LET op == "on_" \o signal_name IN
    IF ~Callable(callback)
    THEN [callbacks |-> cbs, res |-> Raised(op, <<callback>>, "ValueError")]
    ELSE [callbacks |-> [cbs EXCEPT ![RegistryAttr(signal_name)] = Append(@, callback)],
          res |-> Returned(op, <<callback>>, PyNone)]

on_preview_port_added(cbs, callback) == Register(cbs, "preview_port_added", callback)

on_preview_port_removed(cbs, callback) == Register(cbs, "preview_port_removed", callback)

on_new_mode_online(cbs, callback) == Register(cbs, "new_mode_online", callback)

on_show_face_marker(cbs, callback) == Register(cbs, "show_face_marker", callback)

on_show_track_marker(cbs, callback) == Register(cbs, "show_track_marker", callback)

\* on_select_face, had it assigned a new list
on_select_face_assigns(cbs, callback) ==
    LET r == Register(cbs, "select_face", callback) IN
    IF r.res.exc # NoExc THEN r
    ELSE [r EXCEPT !.callbacks["callbacks_select_face"] = <<callback>>]
on_select_face(cbs, callback) == Register(cbs, "select_face", callback)

\* what running a callback does: the exception its body raises, if any
CallbackExc(callback) ==
    CASE callback.v = "cb_value_error"     -> "ValueError"
      [] callback.v = "cb_attribute_error" -> "AttributeError"
      [] OTHER                             -> NoExc

\* functions whose body calls a method of the client they are registered on:
\* switch(VIDEO_CHANNEL_A, 3001), get_compose_port() and
\* on_preview_port_added(cb_a)
ReentrantNames == {"cb_switch", "cb_get_compose_port", "cb_on_preview_port_added"}

ReentrantInputs == {PyFunc(n) : n \in ReentrantNames}

\* callback(*unpack): the lists and the world the call leaves and the
\* exception that comes out of it; a function that calls the client lets the
\* exception of that call out
Callback(callback, cbs, w, tr) ==
    CASE callback.v = "cb_switch" ->
            LET r == switch(w, PyInt(VIDEO_CHANNEL_A), PyInt(3001), tr)
            IN  [callbacks |-> cbs, w |-> r.w, exc |-> r.exc]
      [] callback.v = "cb_get_compose_port" ->
            LET r == get_compose_port(w, tr)
            IN  [callbacks |-> cbs, w |-> r.w, exc |-> r.exc]
      [] callback.v = "cb_on_preview_port_added" ->
            LET r == on_preview_port_added(cbs, PyFunc("cb_a"))
            IN  [callbacks |-> r.callbacks, w |-> w, exc |-> r.res.exc]
      [] OTHER -> [callbacks |-> cbs, w |-> w, exc |-> CallbackExc(callback)]

\* the activation of cb_signal_handler; arrived is the list as it was when
\* the signal came in, raised the exception that left the last callback
Idle ==
    [pc |-> "idle", signal |-> "", unpack |-> <<>>, idx |-> 0, log |-> <<>>,
     arrived |-> <<>>, raised |-> NoExc]

Pending(op, args) == [op |-> op, args |-> args, exc |-> "pending", value |-> PyNone]

\* getattr(self, 'callbacks_' + signal_name) finds a list
HasRegistry(cbs, signal_name) == RegistryAttr(signal_name) \in DOMAIN cbs

\* the loop, had it run from the last callback to the first
NextCallbackReversed(list, idx) == list[Len(list) + 1 - idx]
\* the callback the for loop takes at its step idx
NextCallback(list, idx) == list[idx]

\* except AttributeError: pass
HandlerSwallows(exc) == exc = "AttributeError"

\* the handler, had it let the failed lookup out
NoRegistryRaises(signal_name, parameters) ==
    Raised("cb_signal_handler", <<signal_name, parameters>>, "AttributeError")
\* the lookup finds no list: the AttributeError is swallowed, the handler
\* returns None
NoRegistry(signal_name, parameters) ==
    Returned("cb_signal_handler", <<signal_name, parameters>>, PyNone)

\* cb_signal_handler up to its first callback: the lookup of the list and
\* parameters.unpack(); without a list, or with an empty one, it returns
HandlerEntry(cbs, signal_name, parameters) ==
    IF ~HasRegistry(cbs, signal_name)
    THEN [d |-> [Idle EXCEPT !.pc = "done", !.signal = signal_name],
          res |-> NoRegistry(signal_name, parameters)]
    ELSE LET unpack == parameters.v
             d == [pc |-> "loop", signal |-> signal_name, unpack |-> unpack,
                   idx |-> 1, log |-> <<>>,
                   arrived |-> cbs[RegistryAttr(signal_name)], raised |-> NoExc]
         IN  IF Len(cbs[RegistryAttr(signal_name)]) = 0
             THEN [d |-> [d EXCEPT !.pc = "done"],
                   res |-> Returned("cb_signal_handler", <<signal_name, parameters>>,
                                    PyNone)]
             ELSE [d |-> d,
                   res |-> Pending("cb_signal_handler", <<signal_name, parameters>>)]

\* the loop, had a callback that left another Connection behind ended it
HandlerStepUntilReconnect(cbs, w, d, res, tr) ==
    LET callback == NextCallback(cbs[RegistryAttr(d.signal)], d.idx)
        c == Callback(callback, cbs, w, tr)
        list == c.callbacks[RegistryAttr(d.signal)]
        d1 == [d EXCEPT !.log = Append(@, [callback |-> callback, args |-> d.unpack]),
                        !.idx = @ + 1]
    IN  IF c.exc # NoExc
        THEN [callbacks |-> c.callbacks, w |-> c.w,
              d |-> [d1 EXCEPT !.pc = "done", !.raised = c.exc],
              res |-> IF HandlerSwallows(c.exc)
                      THEN Returned(res.op, res.args, PyNone)
                      ELSE Raised(res.op, res.args, c.exc)]
        ELSE IF d1.idx > Len(list) \/ c.w.connection.id # w.connection.id
             THEN [callbacks |-> c.callbacks, w |-> c.w, d |-> [d1 EXCEPT !.pc = "done"],
                   res |-> Returned(res.op, res.args, PyNone)]
             ELSE [callbacks |-> c.callbacks, w |-> c.w, d |-> d1, res |-> res]
\* one turn of "for callback in callbacks: callback(*unpack)", and the end
\* of the handler when the callback raises or the list is exhausted; the loop
\* reads the list object itself, so it sees what a callback appended to it
HandlerStep(cbs, w, d, res, tr) ==
    LET callback == NextCallback(cbs[RegistryAttr(d.signal)], d.idx)
        c == Callback(callback, cbs, w, tr)
        list == c.callbacks[RegistryAttr(d.signal)]
        d1 == [d EXCEPT !.log = Append(@, [callback |-> callback, args |-> d.unpack]),
                        !.idx = @ + 1]
    IN  IF c.exc # NoExc
        THEN [callbacks |-> c.callbacks, w |-> c.w,
              d |-> [d1 EXCEPT !.pc = "done", !.raised = c.exc],
              res |-> IF HandlerSwallows(c.exc)
                      THEN Returned(res.op, res.args, PyNone)
                      ELSE Raised(res.op, res.args, c.exc)]
        ELSE IF d1.idx > Len(list)
             THEN [callbacks |-> c.callbacks, w |-> c.w, d |-> [d1 EXCEPT !.pc = "done"],
                   res |-> Returned(res.op, res.args, PyNone)]
             ELSE [callbacks |-> c.callbacks, w |-> c.w, d |-> d1, res |-> res]

----------------------------------------------------------------------------
(* The state after Controller() and the public calls as actions *)

Constructed ==
    /\ address = address_setter(PyNone, PyStr(DefaultAddress)).field
    /\ bus_name = bus_name_setter(PyNone, PyStr(DefaultBusName)).field
    /\ object_path = object_path_setter(PyNone, PyStr(DefaultObjectPath)).field
    /\ default_interface =
           default_interface_setter(PyNone, PyStr(DefaultInterface)).field
    /\ connection = NoConnection
    /\ nconns = 0
    /\ callbacks = [a \in RegistryAttrs |-> <<>>]
    /\ events = <<>>
    /\ outcome = Returned("__init__", <<>>, PyNone)
    /\ dispatch = Idle

Init == Constructed

\* no public call is made by the caller while the handler runs its callbacks
CallerRuns == dispatch.pc # "loop"

SetAddress ==
    \E value \in AddressInputs :
        LET r == address_setter(address, value) IN
        /\ CallerRuns
        /\ address' = r.field
        /\ outcome' = r.res
        /\ events' = <<>>
        /\ dispatch' = Idle
        /\ UNCHANGED <<bus_name, object_path, default_interface, connection, nconns,
                       callbacks>>

SetBusName ==
    \E value \in BusNameInputs :
        LET r == bus_name_setter(bus_name, value) IN
        /\ CallerRuns
        /\ bus_name' = r.field
        /\ outcome' = r.res
        /\ events' = <<>>
        /\ dispatch' = Idle
        /\ UNCHANGED <<address, object_path, default_interface, connection, nconns,
                       callbacks>>

SetObjectPath ==
    \E value \in ObjectPathInputs :
        LET r == object_path_setter(object_path, value) IN
        /\ CallerRuns
        /\ object_path' = r.field
        /\ outcome' = r.res
        /\ events' = <<>>
        /\ dispatch' = Idle
        /\ UNCHANGED <<address, bus_name, default_interface, connection, nconns,
                       callbacks>>

SetDefaultInterface ==
    \E value \in InterfaceInputs :
        LET r == default_interface_setter(default_interface, value) IN
        /\ CallerRuns
        /\ default_interface' = r.field
        /\ outcome' = r.res
        /\ events' = <<>>
        /\ dispatch' = Idle
        /\ UNCHANGED <<address, bus_name, object_path, connection, nconns,
                       callbacks>>

\* the effect of a remote operation that ended with result r
Operate(op, args, r) ==
    /\ CallerRuns
    /\ connection' = r.w.connection
    /\ nconns' = r.w.nconns
    /\ events' = r.w.events
    /\ outcome' = IF r.exc = NoExc THEN Returned(op, args, r.value)
                  ELSE Raised(op, args, r.exc)
    /\ dispatch' = Idle
    /\ UNCHANGED <<address, bus_name, object_path, default_interface, callbacks>>

\* Connection objects are built without limit; the model stops at MaxCalls
MayConnect == nconns < MaxCalls

ModeInputs == {PyInt(m) : m \in (COMPOSITE_NONE - 1)..(COMPOSITE_DUAL_EQUAL + 1)}
              \cup {PyNone}

ChannelInputs == {PyInt(VIDEO_CHANNEL_A), PyInt(VIDEO_CHANNEL_B), PyInt(AUDIO_CHANNEL)}

PortInputs == {PyInt(3001)}

\* a list of one face, a tuple of four integers
FacesInputs == {PyList(<<<<PyInt(1), PyInt(2), PyInt(3), PyInt(4)>>>>)}

EstablishConnection ==
    \E tr \in Transports :
        MayConnect /\ Operate("establish_connection", <<>>, establish_connection(World, tr))

GetComposePort ==
    \E tr \in Transports : Operate("get_compose_port", <<>>, get_compose_port(World, tr))

GetEncodePort ==
    \E tr \in Transports : Operate("get_encode_port", <<>>, get_encode_port(World, tr))

GetAudioPort ==
    \E tr \in Transports : Operate("get_audio_port", <<>>, get_audio_port(World, tr))

GetPreviewPorts ==
    \E tr \in Transports : Operate("get_preview_ports", <<>>, get_preview_ports(World, tr))

SetCompositeMode ==
    \E tr \in Transports, mode \in ModeInputs :
        MayConnect /\ Operate("set_composite_mode", <<mode>>,
                              set_composite_mode(World, mode, tr))

GetCompositeMode ==
    \E tr \in Transports :
        MayConnect /\ Operate("get_composite_mode", <<>>, get_composite_mode(World, tr))

SetEncodeMode ==
    \E tr \in Transports, channel \in ChannelInputs :
        MayConnect /\ Operate("set_encode_mode", <<channel>>,
                              set_encode_mode(World, channel, tr))

NewRecord ==
    \E tr \in Transports : MayConnect /\ Operate("new_record", <<>>, new_record(World, tr))

AdjustPip ==
    \E tr \in Transports :
        MayConnect /\ Operate("adjust_pip", <<PyInt(50), PyInt(75), PyInt(0), PyInt(0)>>,
                              adjust_pip(World, PyInt(50), PyInt(75), PyInt(0), PyInt(0), tr))

Switch ==
    \E tr \in Transports, channel \in ChannelInputs, port \in PortInputs :
        MayConnect /\ Operate("switch", <<channel, port>>, switch(World, channel, port, tr))

ClickVideo ==
    \E tr \in Transports :
        MayConnect /\ Operate("click_video", <<PyInt(1), PyInt(2), PyInt(3), PyInt(4)>>,
                              click_video(World, PyInt(1), PyInt(2), PyInt(3), PyInt(4), tr))

MarkFace ==
    \E tr \in Transports, faces \in FacesInputs :
        MayConnect /\ Operate("mark_face", <<faces>>, mark_face(World, faces, tr))

MarkTracking ==
    \E tr \in Transports, faces \in FacesInputs :
        MayConnect /\ Operate("mark_tracking", <<faces>>, mark_tracking(World, faces, tr))

\* the registered functions that call the client
ReentrantRegistered(cbs) ==
    LET RECURSIVE Sum(_)
        Sum(S) ==
            IF S = {} THEN 0
            ELSE LET a == CHOOSE a \in S : TRUE
                 IN  Cardinality({i \in 1..Len(cbs[a]) : cbs[a][i] \in ReentrantInputs})
                     + Sum(S \ {a})
    IN  Sum(DOMAIN cbs)

\* the lists grow without limit; the model stops at MaxRegistered functions
\* that do not call the client and MaxReentrant that do
MayRegister(cbs, callback) ==
    IF callback \in ReentrantInputs
    THEN ReentrantRegistered(cbs) < MaxReentrant
    ELSE TotalRegistered(cbs) - ReentrantRegistered(cbs) < MaxRegistered

\* the effect of a registration that ended with r
Registered(r) ==
    /\ CallerRuns
    /\ MayRegister(callbacks, r.res.args[1])
    /\ callbacks' = r.callbacks
    /\ outcome' = r.res
    /\ events' = <<>>
    /\ dispatch' = Idle
    /\ UNCHANGED <<address, bus_name, object_path, default_interface, connection,
                   nconns>>

OnPreviewPortAdded ==
    \E callback \in RegisterInputs : Registered(on_preview_port_added(callbacks, callback))

OnPreviewPortRemoved ==
    \E callback \in RegisterInputs : Registered(on_preview_port_removed(callbacks, callback))

OnNewModeOnline ==
    \E callback \in RegisterInputs : Registered(on_new_mode_online(callbacks, callback))

OnShowFaceMarker ==
    \E callback \in RegisterInputs : Registered(on_show_face_marker(callbacks, callback))

OnShowTrackMarker ==
    \E callback \in RegisterInputs : Registered(on_show_track_marker(callbacks, callback))

OnSelectFace ==
    \E callback \in RegisterInputs : Registered(on_select_face(callbacks, callback))

\* the bus (or a caller) invokes cb_signal_handler
Signal ==
    \E signal_name \in SignalNames, parameters \in SignalParameters :
        LET r == HandlerEntry(callbacks, signal_name, parameters) IN
        /\ CallerRuns
        /\ dispatch' = r.d
        /\ outcome' = r.res
        /\ events' = <<>>
        /\ UNCHANGED <<address, bus_name, object_path, default_interface, connection,
                       nconns, callbacks>>

\* a callback that calls the client needs room for what the call builds
CallbackMayRun ==
    LET callback == NextCallback(callbacks[RegistryAttr(dispatch.signal)], dispatch.idx)
    IN  /\ callback.v = "cb_switch" => MayConnect
        /\ callback.v = "cb_on_preview_port_added" =>
               MayRegister(callbacks, PyFunc("cb_a"))

\* the handler calls its next callback
CallbackStep ==
    \E tr \in Transports :
        LET r == HandlerStep(callbacks, [World EXCEPT !.events = events], dispatch,
                             outcome, tr) IN
        /\ dispatch.pc = "loop"
        /\ CallbackMayRun
        /\ dispatch' = r.d
        /\ outcome' = r.res
        /\ callbacks' = r.callbacks
        /\ connection' = r.w.connection
        /\ nconns' = r.w.nconns
        /\ events' = r.w.events
        /\ UNCHANGED <<address, bus_name, object_path, default_interface>>

\* parse_preview_ports is a classmethod: it works on its argument alone
ParsePreviewPorts ==
    LET res == outcome.args[1]
        r == parse_preview_ports(res)
    IN  /\ outcome.op = "parse_preview_ports"
        /\ outcome.exc = "pending"
        /\ outcome' = IF r.exc = NoExc
                      THEN Returned("parse_preview_ports", <<res>>, r.value)
                      ELSE Raised("parse_preview_ports", <<res>>, r.exc)
        /\ events' = <<>>
        /\ dispatch' = Idle
        /\ UNCHANGED <<address, bus_name, object_path, default_interface, connection,
                       nconns, callbacks>>

\* on_preview_port_added with a function that calls the client
OnPreviewPortAddedReentrant ==
    \E callback \in ReentrantInputs : Registered(on_preview_port_added(callbacks, callback))

----------------------------------------------------------------------------
(* Specifications *)

\* the remote operations, with the address reassigned between them
Next ==
    \/ SetAddress
    \/ EstablishConnection
    \/ GetComposePort
    \/ GetEncodePort
    \/ GetAudioPort
    \/ GetPreviewPorts
    \/ SetCompositeMode
    \/ GetCompositeMode
    \/ SetEncodeMode
    \/ NewRecord
    \/ AdjustPip
    \/ Switch
    \/ ClickVideo
    \/ MarkFace
    \/ MarkTracking

Spec == Init /\ [][Next]_vars

\* the endpoint setters, on a client that is fresh or already in use
InUse ==
    /\ Constructed!1 /\ Constructed!2 /\ Constructed!3 /\ Constructed!4
    /\ \E tr \in {t \in Transports : t.connect /\ t.subscribe /\ t.reply = NoUnpack} :
          LET e == establish_connection([connection |-> NoConnection, nconns |-> 0,
                                         events |-> <<>>], tr) IN
          /\ connection = e.w.connection
          /\ nconns = e.w.nconns
    /\ callbacks = on_select_face(
                       on_new_mode_online([a \in RegistryAttrs |-> <<>>],
                                          PyFunc("cb_a")).callbacks,
                       PyFunc("cb_b")).callbacks
    /\ events = <<>>
    /\ outcome = Returned("on_select_face", <<PyFunc("cb_b")>>, PyNone)
    /\ dispatch = Idle

InitEndpoint == Constructed \/ InUse

NextEndpoint == SetAddress \/ SetBusName \/ SetObjectPath \/ SetDefaultInterface

SpecEndpoint == InitEndpoint /\ [][NextEndpoint]_vars

\* registrations and signals
NextDispatch ==
    \/ OnPreviewPortAdded
    \/ OnPreviewPortRemoved
    \/ OnNewModeOnline
    \/ OnShowFaceMarker
    \/ OnShowTrackMarker
    \/ OnSelectFace
    \/ Signal
    \/ CallbackStep

\* a client on which establish_connection has succeeded
Connected ==
    /\ Constructed!1 /\ Constructed!2 /\ Constructed!3 /\ Constructed!4
    /\ \E tr \in {t \in Transports : t.connect /\ t.subscribe /\ t.reply = NoUnpack} :
          LET e == establish_connection([connection |-> NoConnection, nconns |-> 0,
                                         events |-> <<>>], tr) IN
          /\ connection = e.w.connection
          /\ nconns = e.w.nconns
          /\ events = e.w.events
    /\ callbacks = [a \in RegistryAttrs |-> <<>>]
    /\ outcome = Returned("establish_connection", <<>>, PyNone)
    /\ dispatch = Idle

InitDispatch == Constructed \/ Connected

SpecDispatch == InitDispatch /\ [][NextDispatch]_vars

\* signals on a client whose callbacks call the client
NextReentrant ==
    \/ OnPreviewPortAdded
    \/ OnPreviewPortAddedReentrant
    \/ Signal
    \/ CallbackStep

SpecReentrant == InitDispatch /\ [][NextReentrant]_vars

\* the parser on texts a server may send
CallsParse ==
    /\ Constructed!1 /\ Constructed!2 /\ Constructed!3 /\ Constructed!4
    /\ Constructed!5 /\ Constructed!6 /\ Constructed!7 /\ Constructed!8
    /\ \E res \in ParseInputs : outcome = Pending("parse_preview_ports", <<res>>)
    /\ Constructed!10

NextParse == ParsePreviewPorts

SpecParse == CallsParse /\ [][NextParse]_vars

\* how far the client is from the state after Controller(): the Connection
\* objects built, the callbacks registered, the endpoint fields reassigned
Distance ==
    nconns + TotalRegistered(callbacks)
    + (IF PyEq(address, PyStr(DefaultAddress)) THEN 0 ELSE 1)
    + (IF PyEq(bus_name, PyStr(DefaultBusName)) THEN 0 ELSE 1)
    + (IF PyEq(object_path, PyStr(DefaultObjectPath)) THEN 0 ELSE 1)
    + (IF PyEq(default_interface, PyStr(DefaultInterface)) THEN 0 ELSE 1)

\* every public call and the signals, on runs that stay within MaxDistance of
\* the state after Controller()
NextClient ==
    \/ /\ Distance < MaxDistance
       /\ \/ SetAddress
          \/ SetBusName
          \/ SetObjectPath
          \/ SetDefaultInterface
          \/ EstablishConnection
          \/ SetCompositeMode
          \/ GetCompositeMode
          \/ SetEncodeMode
          \/ NewRecord
          \/ AdjustPip
          \/ Switch
          \/ ClickVideo
          \/ MarkFace
          \/ MarkTracking
          \/ OnPreviewPortAdded
          \/ OnPreviewPortAddedReentrant
          \/ OnPreviewPortRemoved
          \/ OnNewModeOnline
          \/ OnShowFaceMarker
          \/ OnShowTrackMarker
          \/ OnSelectFace
    \/ GetComposePort
    \/ GetEncodePort
    \/ GetAudioPort
    \/ GetPreviewPorts
    \/ Signal
    \/ CallbackStep

SpecClient == Init /\ [][NextClient]_vars

----------------------------------------------------------------------------
(* Vocabulary of the claims *)

QueryOps == {"get_compose_port", "get_encode_port", "get_audio_port", "get_preview_ports"}

ConnectingOps ==
    {"set_composite_mode", "get_composite_mode", "set_encode_mode", "new_record",
     "adjust_pip", "switch", "click_video", "mark_face", "mark_tracking"}

\* the operations whose code takes unpack()[0] of the reply
UnwrapOps == QueryOps \cup (ConnectingOps \ {"mark_face", "mark_tracking"})

EventsOf(evs, kind) == {i \in 1..Len(evs) : evs[i].ev = kind}

NotUnwrappable(reply) ==
    \/ reply.k \in {"no_unpack", "variant_scalar"}
    \/ reply.k = "variant_tuple" /\ Len(reply.v) = 0

\* connect_dbus and signal_subscribe both succeeded in the last call
Established(evs) ==
    /\ Len(evs) >= 2
    /\ evs[1].ev = "connect" /\ evs[1].result = "ok"
    /\ evs[2].ev = "subscribe" /\ evs[2].result = "ok"

----------------------------------------------------------------------------
(* C1 *)

\* C1, as stated: every operation that issues a remote call, the four
\* queries included, connects first: its call shows one connect and leaves
\* a handle other than the one it found.
C1_AsStated ==
    [][(outcome'.op \in QueryOps \cup ConnectingOps /\ EventsOf(events', "invoke") # {})
       => /\ Cardinality(EventsOf(events', "connect")) = 1
          /\ connection'.id # connection.id]_vars

\* C1, amended: every operation other than the four queries calls
\* establish_connection first: its call shows exactly one connect, before any
\* remote call, on a handle that did not exist before, and its remote call
\* goes to that handle.  A query connects nothing: it keeps the handle it
\* found and makes its remote call on it.
C1_EachCall ==
    /\ outcome'.op \in ConnectingOps =>
        /\ Cardinality(EventsOf(events', "connect")) = 1
        /\ events'[1].ev = "connect"
        /\ connection'.id # connection.id
        /\ connection'.id > nconns
        /\ events'[1].h = connection'.id
        /\ \A i \in EventsOf(events', "invoke") : events'[i].h = connection'.id
    /\ outcome'.op \in QueryOps =>
        /\ EventsOf(events', "connect") = {}
        /\ connection' = connection
        /\ \A i \in EventsOf(events', "invoke") : events'[i].h = connection.id

C1_FreshConnectionPerMutatingCall == [][C1_EachCall]_vars

\* a second state-changing call in a row that reached its remote call
C1_Witness ==
    /\ nconns >= 2
    /\ outcome.op = "switch"
    /\ Len(events) = 3
    /\ events[3].ev = "invoke"

----------------------------------------------------------------------------
(* C2 *)

\* C2: establish_connection builds the handle from the endpoint fields as
\* they are when it is called, connects it, then subscribes
\* cb_signal_handler on it; in every operation that calls it the calls on the
\* bus come in the order connect, subscribe, remote call, all on the handle
\* built in that same call.
C2_EachCall ==
    outcome'.op \in ConnectingOps \cup {"establish_connection"} =>
        LET h == nconns + 1
            order == <<"connect", "subscribe", "invoke">>
        IN  /\ Len(events') \in 1..3
            /\ \A i \in 1..Len(events') : events'[i].ev = order[i] /\ events'[i].h = h
            /\ Len(events') >= 2 => events'[2].args = <<"cb_signal_handler">>
            /\ \A i \in 1..(Len(events') - 1) : events'[i].result = "ok"
            /\ connection'.id = h
            /\ PyEq(connection'.address, address)
            /\ PyEq(connection'.bus_name, bus_name)
            /\ PyEq(connection'.object_path, object_path)
            /\ PyEq(connection'.default_interface, default_interface)

C2_ConnectSubscribeInvoke == [][C2_EachCall]_vars

\* switch after the address was reassigned: three calls on the new handle,
\* which carries the reassigned address
C2_Witness ==
    /\ outcome.op = "switch"
    /\ Len(events) = 3
    /\ ~PyEq(address, PyStr(DefaultAddress))
    /\ PyEq(connection.address, address)

----------------------------------------------------------------------------
(* C3 *)

\* the list cb_signal_handler looked up
DispatchList == callbacks[RegistryAttr(dispatch.signal)]

\* the first n callbacks of a list, each called with args
Calls(list, n, args) == [i \in 1..n |-> [callback |-> list[i], args |-> args]]

\* C3, as stated: when the handler has ended for a signal that has a list,
\* every callback of the list was called once, in order, with the unpacked
\* parameters.
C3_AsStated ==
    (dispatch.pc = "done" /\ HasRegistry(callbacks, dispatch.signal))
    => dispatch.log = Calls(DispatchList, Len(DispatchList), outcome.args[2].v)

\* C3, amended: the callbacks of the signal's list are called in registration
\* order, each once and each with the same unpacked parameters, up to and
\* including the first one that raises; when none raises, every callback of
\* the list is called.  No other callback is called.
C3_InOrderUntilRaise ==
    (dispatch.pc \in {"loop", "done"} /\ HasRegistry(callbacks, dispatch.signal))
    => LET n == Len(dispatch.log) IN
       /\ n <= Len(DispatchList)
       /\ dispatch.log = Calls(DispatchList, n, outcome.args[2].v)
       /\ \A i \in 1..(n - 1) : CallbackExc(dispatch.log[i].callback) = NoExc
       /\ dispatch.pc = "loop" =>
             /\ n < Len(DispatchList)
             /\ \A i \in 1..n : CallbackExc(dispatch.log[i].callback) = NoExc
       /\ dispatch.pc = "done" =>
             \/ n = Len(DispatchList)
             \/ n > 0 /\ CallbackExc(dispatch.log[n].callback) # NoExc

\* two different callbacks of one list, both called, none raising
C3_Witness ==
    /\ dispatch.pc = "done"
    /\ Len(dispatch.log) = 2
    /\ dispatch.log[1].callback # dispatch.log[2].callback
    /\ outcome.exc = NoExc
    /\ CallbackExc(dispatch.log[2].callback) = NoExc

----------------------------------------------------------------------------
(* C4 *)

\* C4: whatever a callback raises, an attribute-lookup failure included,
\* leaves cb_signal_handler as that same exception.
C4_CallbackFailurePropagates ==
    (dispatch.pc = "done" /\ Len(dispatch.log) > 0
        /\ CallbackExc(dispatch.log[Len(dispatch.log)].callback) # NoExc)
    => outcome.exc = CallbackExc(dispatch.log[Len(dispatch.log)].callback)

----------------------------------------------------------------------------
(* C5 *)

\* C5: a signal whose name is none of the six kinds makes the handler return
\* without an error and without calling any callback, and leaves the lists,
\* the endpoint fields and the connection as they were.
C5_EachSignal ==
    (dispatch.pc # "loop" /\ outcome'.op = "cb_signal_handler"
        /\ outcome'.args[1] \notin SignalKinds)
    => /\ outcome'.exc = NoExc
       /\ PyEq(outcome'.value, PyNone)
       /\ dispatch'.pc = "done"
       /\ dispatch'.log = <<>>
       /\ UNCHANGED <<callbacks, address, bus_name, object_path, default_interface,
                      connection, nconns>>

C5_UnknownSignalIgnored == [][C5_EachSignal]_vars

\* an unknown signal handled by a connected client that has callbacks
C5_Witness ==
    /\ dispatch.pc = "done"
    /\ dispatch.signal = "ui_resized"
    /\ outcome.op = "cb_signal_handler"
    /\ TotalRegistered(callbacks) = 2
    /\ connection.id # 0

----------------------------------------------------------------------------
(* C6 *)

\* C6: in every operation that unwraps its reply, a reply that has no first
\* element (not a tuple, or a tuple of no elements) ends the operation with
\* ConnectionReturnError.
C6_BadReplyIsConnectionReturnError ==
    (outcome.op \in UnwrapOps
        /\ \E i \in EventsOf(events, "invoke") : NotUnwrappable(events[i].result))
    => outcome.exc = "ConnectionReturnError"

----------------------------------------------------------------------------
(* C7 *)

\* C7: when connect_dbus or signal_subscribe raises during an operation, the
\* caller gets that error as it is, one connect was attempted and no remote
\* call was made.
C7_TransportErrorUnmodified ==
    (\E i \in 1..Len(events) :
        events[i].ev \in {"connect", "subscribe"} /\ events[i].result = "raises")
    => /\ outcome.exc = "TransportError"
       /\ Cardinality(EventsOf(events, "connect")) = 1
       /\ EventsOf(events, "invoke") = {}

\* click_video whose subscription failed
C7_Witness ==
    /\ outcome.op = "click_video"
    /\ outcome.exc = "TransportError"
    /\ Len(events) = 2
    /\ events[2].ev = "subscribe"
    /\ events[2].result = "raises"

----------------------------------------------------------------------------
(* C8 *)

IsMode(mode) == mode.t = "int" /\ mode.v >= 0 /\ mode.v <= 3

\* C8, as stated: set_composite_mode with a mode outside 0..3 makes no remote
\* call, raises nothing and returns None; with a mode in 0..3 it makes the
\* set_composite_mode remote call exactly once, with that mode.
C8_AsStated ==
    outcome.op = "set_composite_mode" =>
        LET mode == outcome.args[1]
            calls == EventsOf(events, "invoke")
        IN  IF IsMode(mode)
            THEN /\ Cardinality(calls) = 1
                 /\ \A i \in calls : /\ events[i].method = "set_composite_mode"
                                     /\ events[i].args = <<mode>>
            ELSE /\ calls = {}
                 /\ outcome.exc = NoExc
                 /\ PyEq(outcome.value, PyNone)

\* C8, amended: set_composite_mode connects first, and when that fails the
\* transport's error is raised and no remote call is made, whatever the mode.
\* Once connected, a mode outside 0..3 makes no remote call, raises nothing
\* and returns None, and a mode in 0..3 makes the set_composite_mode remote
\* call exactly once, with that mode.
C8_ModeRange ==
    outcome.op = "set_composite_mode" =>
        LET mode == outcome.args[1]
            calls == EventsOf(events, "invoke")
        IN  IF ~Established(events)
            THEN calls = {} /\ outcome.exc = "TransportError"
            ELSE IF IsMode(mode)
            THEN /\ Cardinality(calls) = 1
                 /\ \A i \in calls : /\ events[i].method = "set_composite_mode"
                                     /\ events[i].args = <<mode>>
            ELSE /\ calls = {}
                 /\ outcome.exc = NoExc
                 /\ PyEq(outcome.value, PyNone)

\* set_composite_mode(4) on a bus that connects
C8_Witness ==
    /\ outcome.op = "set_composite_mode"
    /\ outcome.args[1].t = "int"
    /\ outcome.args[1].v = 4
    /\ Established(events)
    /\ outcome.exc = NoExc

----------------------------------------------------------------------------
(* C9 *)

HasDelimiter(text) == \E i \in 1..Len(text) : text[i] = ":"

\* C9, as stated: assigning to address a text that holds ':' anywhere
\* succeeds and address then reads back as that text; assigning a text
\* without ':' raises ValueError.
C9_AsStated ==
    (outcome.op = "address" /\ outcome.args[1].t = "str") =>
        IF HasDelimiter(outcome.args[1].v)
        THEN outcome.exc = NoExc /\ PyEq(address, outcome.args[1])
        ELSE outcome.exc = "ValueError"

\* C9, amended: assigning to address a text that holds ':' and does not
\* start with it succeeds and address then reads back as that text; assigning
\* a text without ':', or one whose first ':' is its first character, raises
\* ValueError.
C9_DelimiterAfterFirstCharacter ==
    (outcome.op = "address" /\ outcome.args[1].t = "str") =>
        LET text == outcome.args[1].v IN
        IF HasDelimiter(text) /\ text[1] # ":"
        THEN outcome.exc = NoExc /\ PyEq(address, outcome.args[1])
        ELSE outcome.exc = "ValueError"

\* "a:" assigned and read back
C9_Witness ==
    /\ outcome.op = "address"
    /\ outcome.exc = NoExc
    /\ outcome.args[1].t = "str"
    /\ outcome.args[1].v = <<"a", ":">>
    /\ PyEq(address, PyStr(<<"a", ":">>))

----------------------------------------------------------------------------
(* C10 *)

\* C10: an assignment to address, object_path or default_interface that
\* fails raises ValueError and leaves that field, the other endpoint fields,
\* the connection and the six lists as they were.
C10_EachAssignment ==
    (outcome'.op \in {"address", "object_path", "default_interface"}
        /\ outcome'.exc # NoExc)
    => /\ outcome'.exc = "ValueError"
       /\ UNCHANGED <<address, bus_name, object_path, default_interface, connection,
                      nconns, callbacks>>

C10_FailedAssignmentChangesNothing == [][C10_EachAssignment]_vars

\* a refused object_path on a client in use whose path had been reassigned
C10_Witness ==
    /\ outcome.op = "object_path"
    /\ outcome.exc = "ValueError"
    /\ PyEq(object_path, PyStr(<<"/", "a">>))
    /\ connection.id # 0
    /\ TotalRegistered(callbacks) > 0

----------------------------------------------------------------------------
(* C11 *)

\* a public call on_<k>(callback) and what it did to the six lists
C11_EachRegistration ==
    \A k \in SignalKinds :
        (dispatch.pc # "loop" /\ outcome'.op = "on_" \o k) =>
            LET callback == outcome'.args[1] IN
            IF Callable(callback)
            THEN /\ outcome'.exc = NoExc
                 /\ callbacks' = [callbacks EXCEPT
                                     ![RegistryAttr(k)] = Append(@, callback)]
            ELSE /\ outcome'.exc = "ValueError"
                 /\ callbacks' = callbacks

\* C11: on_<signal>(callback) with a callable appends it at the end of the
\* list of that signal kind and leaves the other five lists as they were;
\* with an argument that is not callable it raises ValueError and leaves all
\* six lists as they were.
C11_RegistrationAppends == [][C11_EachRegistration]_vars

\* a second callable was registered for select_face, behind a different one
C11_Witness ==
    /\ outcome.op = "on_select_face" /\ outcome.exc = NoExc
    /\ Len(callbacks["callbacks_select_face"]) = 2
    /\ callbacks["callbacks_select_face"][2] = outcome.args[1]
    /\ callbacks["callbacks_select_face"][1] # outcome.args[1]

----------------------------------------------------------------------------
(* C12 *)

IsPrefix(s, t) == Len(s) <= Len(t) /\ SubSeq(t, 1, Len(s)) = s

\* C12: the six lists only grow at their end: whatever step the client takes
\* (a registration, an assignment to an endpoint field, a remote operation,
\* establish_connection, a signal or a callback run by it), each list as it
\* was is a prefix of the list as it is afterwards.
C12_AppendOnly ==
    [][\A a \in RegistryAttrs : IsPrefix(callbacks[a], callbacks'[a])]_vars

\* a signal has run a callback that registered another one, on a client
\* that had connected
C12_Witness ==
    /\ dispatch.pc = "done"
    /\ nconns > 0
    /\ Len(dispatch.arrived) = 1
    /\ Len(callbacks["callbacks_preview_port_added"]) = 2
    /\ Len(dispatch.log) = 2

----------------------------------------------------------------------------
(* C13 *)

\* the texts of OtherTexts that are no literal list or tuple expression
NotListOrTuple ==
    {<<"n", "o", "t", " ", "a", " ", "l", "i", "s", "t">>,
     <<>>,
     <<"[">>,
     <<"[", "(", "1", ",", " ", "2", "]">>,
     <<"x">>,
     <<"5">>,
     <<"N", "o", "n", "e">>,
     <<"T", "r", "u", "e">>}

Firsts(ts) == PyList([i \in 1..Len(ts) |-> PyInt(ts[i].first)])

ParseReturned == outcome.op = "parse_preview_ports" /\ outcome.exc # "pending"

C13_ListsOfTuples ==
    ParseReturned =>
        \A ts \in TupleLists, sep \in Separators :
            outcome.args[1].v = ListText(ts, sep) =>
                outcome.exc = NoExc /\ outcome.value = Firsts(ts)

\* C13: parse_preview_ports of a text that writes a list of tuples returns
\* the first elements of the tuples as integers, in order and as many as
\* there are tuples; of a text that is no literal list or tuple expression it
\* raises ConnectionReturnError.
C13_ParsePreviewPorts ==
    /\ C13_ListsOfTuples
    /\ ParseReturned =>
          (outcome.args[1].v \in NotListOrTuple
              => outcome.exc = "ConnectionReturnError")

----------------------------------------------------------------------------
(* C14 *)

\* a preview-port reply whose first element literal_eval cannot parse: a
\* value that is no text, or the text "not a list"
UnparsablePreview(reply) ==
    /\ reply.k = "variant_tuple" /\ Len(reply.v) > 0
    /\ \/ reply.v[1].t # "str"
       \/ reply.v[1].v = <<"n", "o", "t", " ", "a", " ", "l", "i", "s", "t">>

\* C14: an operation raises ConnectionReturnError only when the reply of its
\* remote call lacks the composite shape or the preview-port text cannot be
\* parsed; when the remote call itself raises, the operation (click_video
\* included) raises that error, never ConnectionReturnError.
C14_OnlyBadRepliesAreConnectionReturnError ==
    /\ outcome.exc = "ConnectionReturnError" =>
          \E i \in EventsOf(events, "invoke") :
              \/ NotUnwrappable(events[i].result)
              \/ outcome.op = "get_preview_ports" /\ UnparsablePreview(events[i].result)
    /\ \A i \in EventsOf(events, "invoke") :
          events[i].result.k = "raises" => outcome.exc = "TransportError"

----------------------------------------------------------------------------
(* C15 *)

\* C15: whatever assignments to the endpoint fields have succeeded or failed,
\* address is a non-empty text that holds ':', object_path a non-empty text
\* that starts with '/', and default_interface a non-empty text that holds
\* '.' at least twice.
C15_ValidatedFieldsStayValid ==
    /\ address.t = "str" /\ Len(address.v) > 0
    /\ \E i \in 1..Len(address.v) : address.v[i] = ":"
    /\ object_path.t = "str" /\ Len(object_path.v) > 0
    /\ object_path.v[1] = "/"
    /\ default_interface.t = "str" /\ Len(default_interface.v) > 0
    /\ Cardinality({i \in 1..Len(default_interface.v) : default_interface.v[i] = "."}) >= 2

\* all three fields reassigned, and the last assignment refused
C15_Witness ==
    /\ outcome.op = "default_interface" /\ outcome.exc = "ValueError"
    /\ outcome.args[1].t = "str"
    /\ ~PyEq(address, PyStr(DefaultAddress))
    /\ ~PyEq(object_path, PyStr(DefaultObjectPath))
    /\ ~PyEq(default_interface, PyStr(DefaultInterface))

----------------------------------------------------------------------------
(* C16 *)

\* the calls of the running (or ended) dispatch to callbacks of these names
LogOf(names) == {i \in 1..Len(dispatch.log) : dispatch.log[i].callback.v \in names}

\* the i-th call of the dispatch has returned
ReturnedAt(i) == i < Len(dispatch.log) \/ dispatch.raised = NoExc

OkEvents(kind) == {i \in EventsOf(events, kind) : events[i].result = "ok"}

\* C16, as stated: when the handler has ended and a callback that called an
\* operation of the client has returned, each such call has built a new
\* Connection and subscribed it, and every callback of the list was called
\* once, in order, with the unpacked parameters of the signal.
C16_AsStated ==
    (dispatch.pc = "done" /\ HasRegistry(callbacks, dispatch.signal))
    => LET nested == {i \in LogOf({"cb_switch", "cb_get_compose_port"}) : ReturnedAt(i)}
       IN  nested # {} =>
             /\ Cardinality(OkEvents("connect")) >= Cardinality(nested)
             /\ Cardinality(OkEvents("subscribe")) >= Cardinality(nested)
             /\ dispatch.log = Calls(DispatchList, Len(DispatchList), dispatch.unpack)

\* C16, amended: a callback that calls an operation other than a query builds
\* one new Connection per call and, when the call returns, has connected and
\* subscribed it; a callback that calls a query builds none.  The handler
\* goes on through the list in registration order, each callback once and
\* with the unpacked parameters of the signal, up to and including the first
\* callback that raises.
C16_NestedOperationKeepsDispatch ==
    (dispatch.pc \in {"loop", "done"} /\ HasRegistry(callbacks, dispatch.signal))
    => LET n == Len(dispatch.log)
           switched == {i \in LogOf({"cb_switch"}) : ReturnedAt(i)}
       IN  /\ Cardinality(EventsOf(events, "connect")) = Cardinality(LogOf({"cb_switch"}))
           /\ \A i, j \in EventsOf(events, "connect") :
                 i < j => events[i].h < events[j].h
           /\ Cardinality(OkEvents("connect")) >= Cardinality(switched)
           /\ Cardinality(OkEvents("subscribe")) >= Cardinality(switched)
           /\ (switched # {} /\ LogOf({"cb_switch"}) = switched) =>
                 connection.id = nconns /\ connection.connected /\ connection.subscribed
           /\ n <= Len(DispatchList)
           /\ dispatch.log = Calls(DispatchList, n, dispatch.unpack)
           /\ dispatch.pc = "loop" => n < Len(DispatchList) /\ dispatch.raised = NoExc
           /\ dispatch.pc = "done" => n = Len(DispatchList) \/ dispatch.raised # NoExc

\* the first callback switched and returned, the second raised, a third was
\* left out
C16_Witness ==
    /\ dispatch.pc = "done"
    /\ HasRegistry(callbacks, dispatch.signal)
    /\ Len(DispatchList) = 3
    /\ Len(dispatch.log) = 2
    /\ dispatch.log[1].callback.v = "cb_switch"
    /\ dispatch.raised = "ValueError"
    /\ connection.subscribed

----------------------------------------------------------------------------
(* C17 *)

\* C17: set_encode_mode, new_record, switch and click_video, when the reply
\* of the remote call is a GVariant tuple of one element or more, return its
\* first element as it is, True or not, and raise nothing.
C17_FirstElementPassedThrough ==
    outcome.op \in {"set_encode_mode", "new_record", "switch", "click_video"} =>
        \A i \in EventsOf(events, "invoke") :
            (events[i].result.k = "variant_tuple" /\ Len(events[i].result.v) > 0)
            => outcome.exc = NoExc /\ outcome.value = events[i].result.v[1]

\* click_video has returned False
C17_Witness ==
    /\ outcome.op = "click_video"
    /\ outcome.exc = NoExc
    /\ PyEq(outcome.value, PyBool(FALSE))
    /\ \E i \in EventsOf(events, "invoke") : events[i].method = "click_video"

----------------------------------------------------------------------------
(* C18 *)

\* C18, as stated: every remote call is made on a Connection on which
\* connect_dbus and signal_subscribe have succeeded.
C18_AsStated ==
    \A i \in EventsOf(events, "invoke") :
        /\ events[i].h = connection.id
        /\ connection.connected /\ connection.subscribed

\* C18, amended: an operation other than the four queries makes its remote
\* call on the Connection it has built, connected and subscribed in the same
\* call; a query connects nothing and makes its remote call on the Connection
\* it finds, connected or not, and on a client that has none it makes no
\* remote call and raises AttributeError.
C18_InvokeOnHandleAtHand ==
    /\ outcome.op \in ConnectingOps =>
          \A i \in EventsOf(events, "invoke") :
              /\ i = 3 /\ Established(events)
              /\ events[1].h = events[i].h /\ events[2].h = events[i].h
              /\ events[i].h = connection.id
              /\ connection.connected /\ connection.subscribed
    /\ outcome.op \in QueryOps =>
          /\ EventsOf(events, "connect") = {} /\ EventsOf(events, "subscribe") = {}
          /\ \A i \in EventsOf(events, "invoke") : i = 1 /\ events[i].h = connection.id
          /\ IF connection.id = 0
             THEN events = <<>> /\ outcome.exc = "AttributeError"
             ELSE Len(events) = 1

\* a query has made its remote call on a Connection whose connect_dbus failed
C18_Witness ==
    /\ outcome.op = "get_audio_port"
    /\ EventsOf(events, "invoke") # {}
    /\ connection.id # 0 /\ ~connection.connected

----------------------------------------------------------------------------
(* C19 *)

\* C19: when cb_signal_handler returns and no callback has raised, it has
\* called the callbacks that were in the list when the signal came in, each
\* once and in order, and no callback registered during the dispatch.
C19_OnlyCallbacksRegisteredAtArrival ==
    (dispatch.pc = "done" /\ HasRegistry(callbacks, dispatch.signal)
        /\ outcome.exc = NoExc /\ dispatch.raised = NoExc)
    => dispatch.log = Calls(dispatch.arrived, Len(dispatch.arrived), dispatch.unpack)

----------------------------------------------------------------------------
(* C20 *)

SetterOps == {"address", "bus_name", "object_path", "default_interface"}

RegistrationOps == {"on_" \o k : k \in SignalKinds}

C20_EachStep ==
    /\ (dispatch.pc # "loop" /\ outcome'.op \in SetterOps \cup RegistrationOps) =>
          /\ connection' = connection
          /\ nconns' = nconns
          /\ events' = <<>>
    /\ nconns' = nconns => connection' = connection
    /\ nconns' # nconns =>
          /\ connection'.id = nconns'
          /\ UNCHANGED <<address, bus_name, object_path, default_interface>>
          /\ connection'.address = address
          /\ connection'.bus_name = bus_name
          /\ connection'.object_path = object_path
          /\ connection'.default_interface = default_interface

\* C20: an assignment to an endpoint field, accepted or refused, and a
\* registration leave self.connection as it is and make no call on the bus;
\* the Connection changes only when a new one is built, and that one is built
\* from the values the four fields have at that moment.
C20_EndpointTakesEffectAtNextConnection == [][C20_EachStep]_vars

\* the address was reassigned on a connected client, whose Connection still
\* holds the earlier address
C20_Witness ==
    /\ outcome.op = "address" /\ outcome.exc = NoExc
    /\ connection.id # 0 /\ connection.connected
    /\ ~PyEq(connection.address, address)

====
